---- MODULE Spec2Model ----
(***************************************************************************)
(* State-machine model of the circuit simulation in src/App.tsx: the React *)
(* component App, its animation-frame callback `loop` and its click        *)
(* handler `handleToggle`.                                                 *)
(*                                                                         *)
(* Units.  Timestamps and deltaTime are whole milliseconds (the code's     *)
(* deltaTime is the same quantity divided by 1000).  trackPos is in px.    *)
(* The coordinates of a battery electron are in half pixels, so that       *)
(* RAIL_OFFSET = 7.5 px is the integer 15, and so are the track points of  *)
(* getXY.  The timestamps of the model are multiples of QuarterLapMs, or   *)
(* of FrameMs in SpecFrames; for both every product and quotient below is  *)
(* exact in the integers.                                                  *)
(*                                                                         *)
(* src/App.tsx holds the component twice and src/unnamed/part_000 holds an  *)
(* earlier variant of it; the three agree on everything modelled here      *)
(* except the spawn region and the pursuit step of the battery electrons,  *)
(* which are modelled from the first copy in src/App.tsx (lines 98-120).   *)
(*                                                                         *)
(* A step of the model is one handler run to completion together with the  *)
(* React render it causes: the queued state updaters are applied in order, *)
(* and when isCircuitClosed or isBatteryDead changed the loop effect is    *)
(* torn down and set up again (a new closure with lastSecond = 0).         *)
(***************************************************************************)
EXTENDS Integers, Sequences, FiniteSets

VARIABLES
  isCircuitClosed,          \* useState(false)            App.tsx:51
  isBatteryDead,            \* useState(false)            App.tsx:52
  electrolyteHeight,        \* useState(75)               App.tsx:53
  visibleIons,              \* useState(75)               App.tsx:54
  electrons,                \* useState([]) + mount effect App.tsx:55,62-71
  batteryElectrons,         \* useState([])               App.tsx:56
  lastTimeRef,              \* useRef(0)                  App.tsx:59
  batteryElectronIdCounter, \* useRef(0)                  App.tsx:60
  lastSecond,               \* `let lastSecond = 0` of the current loop effect, App.tsx:75
  scheduled,                \* the callbacks requestAnimationFrame holds, oldest first: for
                            \* each the isCircuitClosed and isBatteryDead its closure captured
  deltaTime,                \* the deltaTime (ms) computed by the last run of loop, App.tsx:79
  prevTime,                 \* history: timestamp of the previous run of loop (0: none yet)
  lastOp,                   \* history: what the last step was
  energizedMs,              \* history: elapsed ms (where positive) summed over the energized ticks
  depletionEvents,          \* history: number of runs of the drain branch
  probe,                    \* the trackPos of the electron whose rendering is observed
  shown                     \* what the last render made of it, App.tsx:224-232

vars == << isCircuitClosed, isBatteryDead, electrolyteHeight, visibleIons, electrons,
           batteryElectrons, lastTimeRef, batteryElectronIdCounter, lastSecond,
           deltaTime, prevTime, lastOp, energizedMs, depletionEvents, probe, shown,
           scheduled >>

----------------------------------------------------------------------------
(* Program constants *)

TRACK_W == 635
TRACK_H == 385
PERIMETER == 2 * (TRACK_W + TRACK_H)
SPEED_PX_S == 20
ELECTROLYTE_DRAIN_S == 5
ION_DRAIN_S == 5
FullElectrolyteHeight == 75
FullVisibleIons == 75
SecondMs == 1000
\* Twice RAIL_OFFSET (7.5 px), in half pixels.
RAIL_OFFSET2 == 15
\* Speed of a battery electron, px per second (the literal 100 of App.tsx:117-118).
BatteryElectronSpeed == 100
\* The despawn radius in px (the literal 5 of App.tsx:113).
DespawnRadius == 5

----------------------------------------------------------------------------
(* Bounds of the model *)

\* Number of circuit electrons (ELECTRON_COUNT is 1000 in the code).
NumElectrons == 2
\* The timestamps handed to loop are QuarterLapMs * 1 .. QuarterLapMs * MaxTime.
MaxTime == 2
\* No battery electron is spawned once this many ids have been handed out.
MaxIds == 1
\* The history counters stop counting at these values.
MaxCountedDepletions == 3
MaxCountedLaps == 2

\* The frames of SpecFrames: MaxFrames frame times, at most MaxGap between two
\* frames that follow each other.
MaxFrames == 8
MaxGap == 2

\* The frame time of SpecFrames, 100 ms: the time in which a battery electron
\* covers the diameter of the despawn disc (and a circuit electron 2 px).
FrameMs == (2 * DespawnRadius * SecondMs) \div BatteryElectronSpeed
FrameTimes == { SecondMs + k * FrameMs : k \in 0..MaxFrames }

\* The time a circuit electron needs for a quarter of the track: 25500 ms.
QuarterLapMs == (PERIMETER * SecondMs) \div (4 * SPEED_PX_S)
Times == { k * QuarterLapMs : k \in 1..MaxTime }
EnergizedCap == MaxCountedLaps * QuarterLapMs
\* Distance between two neighbours of an initial population, px.
SpacingPx == (PERIMETER \div 3) + 1

----------------------------------------------------------------------------
(* Arithmetic of the host language *)

Max(a, b) == IF a >= b THEN a ELSE b
Abs(a) == IF a >= 0 THEN a ELSE -a

\* JavaScript's % : the remainder takes the sign of the dividend.
JsRem(a, n) == IF a >= 0 THEN a % n ELSE -((-a) % n)

\* Quotient rounded toward zero, as a real division does when it is exact.
Quot(a, b) == IF (a >= 0) = (b >= 0) THEN Abs(a) \div Abs(b) ELSE -(Abs(a) \div Abs(b))

RECURSIVE SqrtFrom(_, _)
\* Integer square root of n by Newton's iteration from a guess x >= sqrt(n).
SqrtFrom(n, x) ==
  LET y == (x + n \div x) \div 2
  IN  IF y >= x THEN x ELSE SqrtFrom(n, y)

\* Math.sqrt(dx * dx + dy * dy), on the perfect squares the model produces.
Hypot(dx, dy) ==
  IF dx = 0 /\ dy = 0 THEN 0 ELSE SqrtFrom(dx * dx + dy * dy, Abs(dx) + Abs(dy))

----------------------------------------------------------------------------
(* The track and the rendering of a circuit electron (App.tsx:19-48, 224-232) *)

\* Mutant of SegmentPoint: the left branch forgets RAIL_OFFSET in y.
SegmentPointNoOffset(k, trackPos) ==
  CASE k = 1 -> [x |-> RAIL_OFFSET2 + 2 * trackPos, y |-> RAIL_OFFSET2,
                 angle |-> 0, isHorizontal |-> TRUE]
    [] k = 2 -> [x |-> RAIL_OFFSET2 + 2 * TRACK_W,
                 y |-> RAIL_OFFSET2 + 2 * (trackPos - TRACK_W),
                 angle |-> 90, isHorizontal |-> FALSE]
    [] k = 3 -> [x |-> RAIL_OFFSET2 + 2 * TRACK_W - 2 * (trackPos - (TRACK_W + TRACK_H)),
                 y |-> RAIL_OFFSET2 + 2 * TRACK_H,
                 angle |-> 180, isHorizontal |-> TRUE]
    [] k = 4 -> [x |-> RAIL_OFFSET2,
                 y |-> 2 * TRACK_H - 2 * (trackPos - (2 * TRACK_W + TRACK_H)),
                 angle |-> 270, isHorizontal |-> FALSE]

\* The four branches of getXY, in half pixels: top, right, bottom, left.
SegmentPoint(k, trackPos) ==
  CASE k = 1 -> [x |-> RAIL_OFFSET2 + 2 * trackPos, y |-> RAIL_OFFSET2,
                 angle |-> 0, isHorizontal |-> TRUE]
    [] k = 2 -> [x |-> RAIL_OFFSET2 + 2 * TRACK_W,
                 y |-> RAIL_OFFSET2 + 2 * (trackPos - TRACK_W),
                 angle |-> 90, isHorizontal |-> FALSE]
    [] k = 3 -> [x |-> RAIL_OFFSET2 + 2 * TRACK_W - 2 * (trackPos - (TRACK_W + TRACK_H)),
                 y |-> RAIL_OFFSET2 + 2 * TRACK_H,
                 angle |-> 180, isHorizontal |-> TRUE]
    [] k = 4 -> [x |-> RAIL_OFFSET2,
                 y |-> RAIL_OFFSET2 + 2 * TRACK_H - 2 * (trackPos - (2 * TRACK_W + TRACK_H)),
                 angle |-> 270, isHorizontal |-> FALSE]

\* The trackPos up to which branch k is taken; the last branch has no test,
\* the track ends at PERIMETER.
SegmentEnd(k) ==
  CASE k = 1 -> TRACK_W
    [] k = 2 -> TRACK_W + TRACK_H
    [] k = 3 -> 2 * TRACK_W + TRACK_H
    [] k = 4 -> PERIMETER

\* The branch the if-chain of getXY takes.
SegmentOf(trackPos) ==
  IF trackPos <= SegmentEnd(1) THEN 1
  ELSE IF trackPos <= SegmentEnd(2) THEN 2
  ELSE IF trackPos <= SegmentEnd(3) THEN 3
  ELSE 4

getXY(trackPos) == SegmentPoint(SegmentOf(trackPos), trackPos)

\* `Math.abs(y - RAIL_OFFSET) < 1 && x >= 325 - 75 && x <= 325 + 75`
IsUnderBattery(pt) ==
  /\ Abs(pt.y - RAIL_OFFSET2) < 2
  /\ pt.x >= 2 * (325 - 75) /\ pt.x <= 2 * (325 + 75)

SwitchXStart2 == 2 * (325 + 75 + 50)

\* Mutant of IsUnderSwitch: the test forgets the switch.
IsUnderSwitchAlways(pt, closed) ==
  /\ Abs(pt.y - RAIL_OFFSET2) < 2
  /\ pt.x >= SwitchXStart2 /\ pt.x <= SwitchXStart2 + 2 * 30

\* `!isCircuitClosed && (Math.abs(y - RAIL_OFFSET) < 1 && x >= switchXStart && ...)`
IsUnderSwitch(pt, closed) ==
  /\ ~closed
  /\ Abs(pt.y - RAIL_OFFSET2) < 2
  /\ pt.x >= SwitchXStart2 /\ pt.x <= SwitchXStart2 + 2 * 30

\* The callback of electrons.map for an electron at trackPos: its track point,
\* and whether a circle is returned for it (not null).
RenderElectron(trackPos, closed) ==
  LET pt == getXY(trackPos)
  IN  [pt |-> pt, visible |-> ~(IsUnderBattery(pt) \/ IsUnderSwitch(pt, closed))]

\* The rectangles drawn for the battery and for the open switch, half px.
BatteryRect2 ==
  [x |-> 2 * (325 - 75), y |-> RAIL_OFFSET2 - 75, width |-> 2 * 150, height |-> 2 * 75]
SwitchRect2 ==
  [x |-> 2 * (325 + 75 + 50), y |-> RAIL_OFFSET2 - 2 * 10, width |-> 2 * 30, height |-> 2 * 20]

InRect(pt, r) ==
  /\ r.x <= pt.x /\ pt.x <= r.x + r.width
  /\ r.y <= pt.y /\ pt.y <= r.y + r.height

----------------------------------------------------------------------------
(* The mount effect: the initial circuit electrons (App.tsx:62-71) *)

\* One electron as Math.random() can draw it: trackPos in [0, PERIMETER),
\* transversePos in [-6, 6), vx and vy in (-3, -1] or [1, 3), vfreq one of
\* "0.20s" .. "0.50s" (here the hundredths of a second).  The i-th electron of
\* a population lies SpacingPx * (i - 1) px past the first one.
InitialElectron(first, i) ==
  [trackPos |-> (first + SpacingPx * (i - 1)) % PERIMETER,
   transversePos |-> ((5 * i) % 12) - 6,
   vx |-> IF i % 2 = 0 THEN 2 ELSE -1,
   vy |-> IF i % 3 = 0 THEN -2 ELSE 1,
   vfreq |-> 20 + ((7 * i) % 31)]

\* The populations the model starts from: the first electron at the start of
\* the track, or 10 px before its end.
InitialPopulations ==
  { [i \in 1..NumElectrons |-> InitialElectron(first, i)] : first \in {0, PERIMETER - 10} }

----------------------------------------------------------------------------
(* The loop effect (App.tsx:73-127) *)

\* Mutant of Energized: the branch is taken in every tick.
EnergizedAlways(closed, dead) == TRUE

\* The guard of the energized branch, on the values the loop closure captured.
Energized(closed, dead) == closed /\ ~dead

\* deltaTime in ms: `if (!lastTimeRef.current) lastTimeRef.current = time` and the
\* subtraction that follows.
ElapsedMs(ref, time) == time - (IF ref = 0 THEN time ELSE ref)

\* Mutant of MoveElectron: the sum is stored without the remainder.
MoveElectronNoWrap(e, dt) ==
  [e EXCEPT !.trackPos = e.trackPos + Quot(SPEED_PX_S * dt, SecondMs)]

\* One electron of setElectrons' updater.
MoveElectron(e, dt) ==
  [e EXCEPT !.trackPos = JsRem(e.trackPos + Quot(SPEED_PX_S * dt, SecondMs), PERIMETER)]

\* Mutant of MoveElectrons: the updater builds its electrons without the
\* spread of the old ones.
MoveElectronsNoSpread(es, dt) ==
  [i \in DOMAIN es |-> [MoveElectron(es[i], dt) EXCEPT !.transversePos = 0]]

\* setElectrons' updater, `prev.map(...)`.
MoveElectrons(es, dt) == [i \in DOMAIN es |-> MoveElectron(es[i], dt)]

\* `time - lastSecond >= 1000`
DrainDue(time, ls) == time - ls >= SecondMs

\* The updaters of setElectrolyteHeight and setVisibleIons.
DrainElectrolyte(h) == Max(0, h - ELECTROLYTE_DRAIN_S)
DrainIons(i) == Max(0, i - ION_DRAIN_S)

\* Mutant of KillsBattery: the test can never succeed on a floored height.
KillsBatteryBelowZero(newH) == newH < 0

\* `if (newH === 0) setIsBatteryDead(true)`
KillsBattery(newH) == newH = 0

\* Mutant of DeadAfterTick: every tick writes the outcome of its own test.
DeadAfterTickOverwrites(dead, dies) == dies

\* isBatteryDead after the render: loop only ever writes true to it.
DeadAfterTick(dead, dies) == dead \/ dies

\* Mutant of ClosedAfterTick: the tick that kills the battery opens the switch.
ClosedAfterTickOpens(closed, dies) == closed /\ ~dies

\* isCircuitClosed after the render: loop has no call of setIsCircuitClosed.
ClosedAfterTick(closed, dies) == closed

\* The spawn region: startX in [350, 395), startY in [RAIL_OFFSET - 37.5, +70), half px.
InSpawnRegion(p) ==
  /\ 2 * 350 <= p.x /\ p.x < 2 * (350 + 45)
  /\ RAIL_OFFSET2 - 75 <= p.y /\ p.y < RAIL_OFFSET2 - 75 + 2 * 70

\* A point of the region, 50 px from the target on a 3-4-5 line.
SpawnPoints ==
  { p \in { [x |-> 720, y |-> 75] } : InSpawnRegion(p) }

TargetX2 == 2 * (325 + 75)
TargetY2 == RAIL_OFFSET2

\* Distance of a battery electron to the target, half px.
Dist2(be) ==
  LET dx == TargetX2 - be.x
      dy == TargetY2 - be.y
  IN  Hypot(dx, dy)

\* `dist < 5`: the electron is marked dead and then filtered out.
Arrived(be) == Dist2(be) < 2 * DespawnRadius

\* The pursuit step of one battery electron that has not arrived.
StepBatteryElectron(be, dt) ==
  LET dx == TargetX2 - be.x
      dy == TargetY2 - be.y
      dist == Dist2(be)
      step == Quot(2 * BatteryElectronSpeed * dt, SecondMs)
  IN  [be EXCEPT !.x = be.x + Quot(dx * step, dist),
                 !.y = be.y + Quot(dy * step, dist)]

RECURSIVE AdvanceBatteryElectrons(_, _)
\* The map and the filter of setBatteryElectrons' second updater.
AdvanceBatteryElectrons(bes, dt) ==
  IF bes = << >> THEN << >>
  ELSE LET rest == AdvanceBatteryElectrons(Tail(bes), dt)
       IN  IF Arrived(Head(bes)) THEN rest
           ELSE << StepBatteryElectron(Head(bes), dt) >> \o rest

\* The loop effect's dependencies [isCircuitClosed, isBatteryDead].
DepsChanged(closed, dead, closed2, dead2) == closed # closed2 \/ dead # dead2

\* `requestAnimationFrame(loop)` by the set-up of the effect or by loop itself,
\* for the loop that captured closed and dead.
RequestAnimationFrame(q, closed, dead) == Append(q, [closed |-> closed, dead |-> dead])

\* `cancelAnimationFrame(animationFrame)`: animationFrame holds the handle of the
\* request made last, by the set-up or by the loop's last line.
CancelAnimationFrame(q) == IF q = << >> THEN q ELSE SubSeq(q, 1, Len(q) - 1)

\* Mutant of EffectScheduled: the clean-up cancels nothing.
EffectScheduledKeepsOld(changed, q, closed2, dead2) ==
  IF changed THEN RequestAnimationFrame(q, closed2, dead2) ELSE q

\* The pending callbacks after a render: a changed dependency runs the
\* clean-up of the old effect and then the set-up of the new one.
EffectScheduled(changed, q, closed2, dead2) ==
  IF changed THEN RequestAnimationFrame(CancelAnimationFrame(q), closed2, dead2) ELSE q

\* Mutant of EffectIdCounter: the counter restarts with the effect.
EffectIdCounterRestarts(changed, counter) == IF changed THEN 0 ELSE counter

\* batteryElectronIdCounter after a render: a ref of the component, like
\* lastTimeRef.
EffectIdCounter(changed, counter) == counter

\* lastSecond of the loop that runs after a render: a changed dependency tears
\* the effect down and sets it up again, `let lastSecond = 0`.
EffectLastSecond(changed, ls) == IF changed THEN 0 ELSE ls

\* Mutant of EffectLastTimeRef: the baseline restarts with the effect.
EffectLastTimeRefRestarts(changed, ref) == IF changed THEN 0 ELSE ref

\* lastTimeRef after a render: a ref of the component, which the effect's
\* set-up does not touch.
EffectLastTimeRef(changed, ref) == ref

\* The history counters count together until one of them reaches its bound;
\* from then on both stay at their bounds.
Counting == energizedMs < EnergizedCap /\ depletionEvents < MaxCountedDepletions
Counted(ms, n) ==
  IF Counting /\ ms < EnergizedCap /\ n < MaxCountedDepletions
  THEN << ms, n >>
  ELSE << EnergizedCap, MaxCountedDepletions >>

\* One run of loop(time) and the render that follows it.  spawnDraw is
\* `Math.random() > 0.7`, start the spawn position drawn.
loop(time, spawnDraw, start) ==
  LET callback == Head(scheduled)
      dt == ElapsedMs(lastTimeRef, time)
      energized == Energized(callback.closed, callback.dead)
      drain == energized /\ DrainDue(time, lastSecond)
      newH == IF drain THEN DrainElectrolyte(electrolyteHeight) ELSE electrolyteHeight
      dies == drain /\ KillsBattery(newH)
      spawn == energized /\ spawnDraw
      spawned == IF spawn
                 THEN Append(batteryElectrons,
                             [id |-> batteryElectronIdCounter, x |-> start.x, y |-> start.y])
                 ELSE batteryElectrons
      dead2 == DeadAfterTick(isBatteryDead, dies)
      closed2 == ClosedAfterTick(isCircuitClosed, dies)
      changed == DepsChanged(isCircuitClosed, isBatteryDead, closed2, dead2)
  IN  /\ scheduled # << >>
      /\ deltaTime' = dt
      /\ electrons' = IF energized THEN MoveElectrons(electrons, dt) ELSE electrons
      /\ electrolyteHeight' = newH
      /\ visibleIons' = IF drain THEN DrainIons(visibleIons) ELSE visibleIons
      /\ isBatteryDead' = dead2
      /\ isCircuitClosed' = closed2
      /\ batteryElectronIdCounter' =
           EffectIdCounter(changed, IF spawn THEN batteryElectronIdCounter + 1
                                             ELSE batteryElectronIdCounter)
      /\ batteryElectrons' = AdvanceBatteryElectrons(spawned, dt)
      /\ lastSecond' = EffectLastSecond(changed, IF drain THEN time ELSE lastSecond)
      /\ lastTimeRef' = EffectLastTimeRef(changed, time)
      /\ scheduled' =
           EffectScheduled(changed,
                           RequestAnimationFrame(Tail(scheduled), callback.closed, callback.dead),
                           closed2, dead2)
      /\ prevTime' = time
      /\ lastOp' = IF dies THEN "death" ELSE "tick"
      /\ probe' = probe
      /\ shown' = RenderElectron(probe, closed2)
      /\ energizedMs' = Counted(energizedMs + (IF energized THEN Max(0, dt) ELSE 0),
                                depletionEvents + (IF drain THEN 1 ELSE 0))[1]
      /\ depletionEvents' = Counted(energizedMs + (IF energized THEN Max(0, dt) ELSE 0),
                                    depletionEvents + (IF drain THEN 1 ELSE 0))[2]

----------------------------------------------------------------------------
(* The click handler (App.tsx:129-138) and the render that follows it *)

\* Mutants of ToggleResult: the reset keeps the switch as it was; every toggle
\* refills the electrolyte; the reset forgets the ions.
ToggleResultKeepsClosed(closed, dead, h, ions) ==
  IF dead
  THEN [closed |-> closed, dead |-> FALSE,
        h |-> FullElectrolyteHeight, ions |-> FullVisibleIons]
  ELSE [closed |-> ~closed, dead |-> dead, h |-> h, ions |-> ions]

ToggleResultRefills(closed, dead, h, ions) ==
  IF dead
  THEN [closed |-> FALSE, dead |-> FALSE,
        h |-> FullElectrolyteHeight, ions |-> FullVisibleIons]
  ELSE [closed |-> ~closed, dead |-> dead, h |-> FullElectrolyteHeight, ions |-> ions]

ToggleResultKeepsIons(closed, dead, h, ions) ==
  IF dead
  THEN [closed |-> FALSE, dead |-> FALSE,
        h |-> FullElectrolyteHeight, ions |-> ions]
  ELSE [closed |-> ~closed, dead |-> dead, h |-> h, ions |-> ions]

\* What handleToggle writes, from the values of the render it was created in.
ToggleResult(closed, dead, h, ions) ==
  IF dead
  THEN [closed |-> FALSE, dead |-> FALSE,
        h |-> FullElectrolyteHeight, ions |-> FullVisibleIons]
  ELSE [closed |-> ~closed, dead |-> dead, h |-> h, ions |-> ions]

handleToggle ==
  LET r == ToggleResult(isCircuitClosed, isBatteryDead, electrolyteHeight, visibleIons)
      changed == DepsChanged(isCircuitClosed, isBatteryDead, r.closed, r.dead)
  IN  /\ isCircuitClosed' = r.closed
      /\ isBatteryDead' = r.dead
      /\ electrolyteHeight' = r.h
      /\ visibleIons' = r.ions
      /\ lastSecond' = EffectLastSecond(changed, lastSecond)
      /\ lastTimeRef' = EffectLastTimeRef(changed, lastTimeRef)
      /\ scheduled' = EffectScheduled(changed, scheduled, r.closed, r.dead)
      /\ lastOp' = IF isBatteryDead THEN "reset" ELSE "flip"
      /\ probe' = probe
      /\ shown' = RenderElectron(probe, r.closed)
      /\ batteryElectronIdCounter' = EffectIdCounter(changed, batteryElectronIdCounter)
      /\ UNCHANGED << electrons, batteryElectrons,
                      deltaTime, prevTime, energizedMs, depletionEvents >>

----------------------------------------------------------------------------
(* The specification *)

\* The component after its first render and its mount effect.
Mounted ==
  /\ isCircuitClosed = FALSE
  /\ isBatteryDead = FALSE
  /\ electrolyteHeight = FullElectrolyteHeight
  /\ visibleIons = FullVisibleIons
  /\ electrons \in InitialPopulations
  /\ batteryElectrons = << >>
  /\ lastTimeRef = 0
  /\ batteryElectronIdCounter = 0
  /\ lastSecond = 0
  /\ scheduled = RequestAnimationFrame(<< >>, isCircuitClosed, isBatteryDead)
  /\ deltaTime = 0
  /\ prevTime = 0
  /\ lastOp = "mount"
  /\ energizedMs = 0
  /\ depletionEvents = 0

\* The electron observed is one at the start of the track.
Init ==
  /\ Mounted
  /\ probe = 0
  /\ shown = RenderElectron(probe, isCircuitClosed)

\* The model hands out at most cap ids: no spawn is drawn after that.
MaySpawn(spawnDraw, cap) == spawnDraw => batteryElectronIdCounter < cap

Tick == \E time \in Times, spawnDraw \in BOOLEAN, start \in SpawnPoints :
          MaySpawn(spawnDraw, MaxIds) /\ loop(time, spawnDraw, start)

\* A click on the button, which is there while the component is mounted.
Toggle == lastOp # "unmount" /\ handleToggle

Next == Tick \/ Toggle

\* Any timestamp may follow any other.
Spec == Init /\ [][Next]_vars

\* The timestamps never decrease, as requestAnimationFrame delivers them.
MonotonicTick == \E time \in Times, spawnDraw \in BOOLEAN, start \in SpawnPoints :
                   /\ time >= lastTimeRef
                   /\ MaySpawn(spawnDraw, MaxIds)
                   /\ loop(time, spawnDraw, start)

NextMonotonic == MonotonicTick \/ Toggle

SpecMonotonic == Init /\ [][NextMonotonic]_vars

\* Animation frames as a display delivers them: the first one a second after
\* the page was loaded, every later one 1 .. MaxGap frame times after the one
\* before it, MaxFrames frame times in all.
FrameTick == \E time \in FrameTimes, spawnDraw \in BOOLEAN, start \in SpawnPoints :
               /\ lastTimeRef = 0 => time = SecondMs
               /\ lastTimeRef # 0 => /\ time > lastTimeRef
                                     /\ time - lastTimeRef <= MaxGap * FrameMs
               /\ MaySpawn(spawnDraw, MaxIds + 1)
               /\ loop(time, spawnDraw, start)

NextFrames == FrameTick \/ Toggle

SpecFrames == Init /\ [][NextFrames]_vars

\* The component is taken off the page: the clean-up of the loop effect runs.
Unmount ==
  /\ lastOp # "unmount"
  /\ scheduled' = CancelAnimationFrame(scheduled)
  /\ lastOp' = "unmount"
  /\ UNCHANGED << isCircuitClosed, isBatteryDead, electrolyteHeight, visibleIons,
                  electrons, batteryElectrons, lastTimeRef, batteryElectronIdCounter,
                  lastSecond, deltaTime, prevTime, energizedMs, depletionEvents,
                  probe, shown >>

NextLifecycle == MonotonicTick \/ Toggle \/ Unmount

\* The component from its mount to its unmount, under non-decreasing timestamps.
SpecLifecycle == Init /\ [][NextLifecycle]_vars

\* The electron observed is at any whole trackPos getXY can be asked about,
\* and every toggle renders it again.
InitRender ==
  /\ Mounted
  /\ probe \in 0..PERIMETER
  /\ shown = RenderElectron(probe, isCircuitClosed)

NextRender == Toggle

SpecRender == InitRender /\ [][NextRender]_vars

----------------------------------------------------------------------------
(* Claims *)

\* The steps after which the loop effect runs again.
Transitions == {"flip", "reset", "death"}

\* C1: a toggle on a dead battery leaves isBatteryDead and isCircuitClosed both
\* false, whatever isCircuitClosed was before it.
C1_ToggleOnDeadResets ==
  [][ (isBatteryDead /\ handleToggle) =>
        /\ ~isBatteryDead' /\ ~isCircuitClosed'
        /\ \A c \in BOOLEAN :
             LET r == ToggleResult(c, TRUE, electrolyteHeight, visibleIons)
             IN  ~r.dead /\ ~r.closed ]_vars

C1_Witness == lastOp = "reset" /\ ~isBatteryDead /\ ~isCircuitClosed

\* C2: a toggle on a live battery negates isCircuitClosed and leaves the
\* electrolyte, the ions, isBatteryDead, the circuit electrons, the battery
\* electrons and the id counter as they were.
C2_ToggleFlipsOnlyClosed ==
  [][ (~isBatteryDead /\ handleToggle) =>
        /\ isCircuitClosed' = ~isCircuitClosed
        /\ UNCHANGED << electrolyteHeight, visibleIons, isBatteryDead, electrons,
                        batteryElectrons, batteryElectronIdCounter >> ]_vars

C2_Witness ==
  /\ lastOp = "flip"
  /\ electrolyteHeight < FullElectrolyteHeight
  /\ batteryElectrons # << >>
  /\ batteryElectronIdCounter > 0

\* C3 as stated: the reset yields electrolyte 100 and ions 100, battery alive,
\* switch open.
C3_ResetYields100 ==
  lastOp = "reset" =>
    /\ electrolyteHeight = 100 /\ visibleIons = 100
    /\ ~isBatteryDead /\ ~isCircuitClosed

\* C3 as amended: the reset yields the initial values, electrolyte 75 and ions
\* 75, battery alive, switch open, whatever the state before it.
C3_ResetYieldsFull ==
  lastOp = "reset" =>
    /\ electrolyteHeight = FullElectrolyteHeight /\ visibleIons = FullVisibleIons
    /\ ~isBatteryDead /\ ~isCircuitClosed

C3_Witness ==
  /\ lastOp = "reset"
  /\ electrolyteHeight = FullElectrolyteHeight
  /\ depletionEvents = MaxCountedDepletions

\* C4 as stated, from the charge a freshly reset source has (C3): while the
\* history counters count, the electrolyte is max(0, full - N * R), N the whole
\* seconds of energized time so far and R the drain per second.
C4_ChargeFollowsSeconds ==
  Counting =>
    electrolyteHeight =
      Max(0, FullElectrolyteHeight - (energizedMs \div SecondMs) * ELECTROLYTE_DRAIN_S)

\* C5 as stated: while the history counters count, the number of depletion
\* events is at most the whole seconds of energized time so far.
C5_OncePerSecond ==
  Counting => depletionEvents <= energizedMs \div SecondMs

\* C6: isBatteryDead holds exactly when the electrolyte is 0.
C6_DeadIffEmpty == isBatteryDead <=> (electrolyteHeight = 0)

C6_Witness == lastOp = "death" /\ isBatteryDead /\ electrolyteHeight = 0

\* C7: from a dead battery a tick leaves isBatteryDead true and the electrolyte
\* and the ions unchanged, and only a toggle makes isBatteryDead false.
C7_DeadUntilToggle ==
  [][ isBatteryDead =>
        /\ Tick => /\ isBatteryDead'
                   /\ UNCHANGED << electrolyteHeight, visibleIons >>
        /\ ~isBatteryDead' => Toggle ]_vars

C7_Witness == lastOp = "tick" /\ isBatteryDead /\ electrolyteHeight = 0

\* C8 as stated: the tick that makes isBatteryDead true, and every tick on a
\* dead battery, moves no circuit electron and spawns no battery electron.
C8_DeathTickFreezes ==
  [][ ((~isBatteryDead /\ isBatteryDead') \/ (isBatteryDead /\ Tick)) =>
        /\ \A i \in DOMAIN electrons : electrons'[i].trackPos = electrons[i].trackPos
        /\ batteryElectronIdCounter' = batteryElectronIdCounter
        /\ Len(batteryElectrons') <= Len(batteryElectrons) ]_vars

\* C9 as stated: the first tick after a toggle, or after the tick that killed
\* the battery, measures an elapsed time of 0.
C9_FirstTickMeasuresZero ==
  [][ (lastOp \in Transitions /\ Tick) => deltaTime' = 0 ]_vars

\* C9 as amended: a toggle or a killing tick restarts lastSecond at 0 and keeps
\* the elapsed-time baseline, so the first tick after it measures its timestamp
\* minus the timestamp of the tick before (when there was one).
C9_BaselineSurvives ==
  [][ /\ lastOp' \in Transitions => lastSecond' = 0
      /\ (lastOp \in Transitions /\ Tick /\ prevTime # 0) =>
           deltaTime' = prevTime' - prevTime ]_vars

\* The first energized tick ever, hence the first tick after the toggle that
\* closed the switch, and it measured a time other than 0.
C9_Witness ==
  /\ lastOp = "tick" /\ isCircuitClosed
  /\ depletionEvents = 1 /\ lastSecond = lastTimeRef
  /\ deltaTime # 0

\* C10 as stated: every circuit electron's trackPos is in [0, PERIMETER).
C10_TrackPosInRange ==
  \A i \in DOMAIN electrons :
    0 <= electrons[i].trackPos /\ electrons[i].trackPos < PERIMETER

\* C11: in an energized tick every circuit electron's new trackPos is its old
\* one plus SPEED_PX_S times the elapsed time, modulo PERIMETER, the same speed
\* for every electron; at 20 px/s on a perimeter of 2040 px one second takes an
\* electron from 2030 to 10.
C11_AdvanceModPerimeter ==
  [][ (isCircuitClosed /\ ~isBatteryDead /\ MonotonicTick) =>
        /\ \A i \in DOMAIN electrons :
             electrons'[i].trackPos =
               (electrons[i].trackPos + (SPEED_PX_S * deltaTime') \div SecondMs) % PERIMETER
        /\ MoveElectron([trackPos |-> PERIMETER - 10], SecondMs).trackPos = 10 ]_vars

\* An energized tick that took an electron from 10 px before the end of the
\* track over the end, to 500.
C11_Witness ==
  /\ lastOp = "tick" /\ isCircuitClosed /\ ~isBatteryDead
  /\ deltaTime = QuarterLapMs
  /\ \E i \in DOMAIN electrons :
       electrons[i].trackPos = PERIMETER - 10 + ((QuarterLapMs * SPEED_PX_S) \div SecondMs) - PERIMETER

\* A battery electron that has covered its initial distance to the target:
\* every spawn point lies left of the target and the pursuit goes along the
\* straight line to it, so this is one at or behind the target.
C12_Overdue(be) == be.x >= TargetX2

\* C12 as stated, in the form a finite run refutes: the ticks a battery
\* electron survives are bounded by its initial distance over its speed, so a
\* tick with positive elapsed time removes every one that has covered that
\* distance; and a tick removes every one it finds within the despawn radius.
C12_RemovedWithinBound ==
  [][ (FrameTick /\ deltaTime' > 0) =>
        \A i \in DOMAIN batteryElectrons :
          (C12_Overdue(batteryElectrons[i]) \/ Arrived(batteryElectrons[i])) =>
            \A j \in DOMAIN batteryElectrons' :
              batteryElectrons'[j].id # batteryElectrons[i].id ]_vars

\* C13: an electron whose track point lies in the rectangle of the battery is
\* not drawn, whatever isCircuitClosed is; one whose track point lies in the
\* rectangle of the switch is not drawn exactly when isCircuitClosed is false;
\* every other electron is drawn.
C13_Visibility ==
  /\ shown = RenderElectron(probe, isCircuitClosed)
  /\ InRect(shown.pt, BatteryRect2) => ~shown.visible
  /\ InRect(shown.pt, SwitchRect2) => (shown.visible <=> isCircuitClosed)
  /\ ~InRect(shown.pt, BatteryRect2) /\ ~InRect(shown.pt, SwitchRect2) => shown.visible

\* An electron in the gap of the switch, drawn because the switch is closed.
C13_Witness ==
  InRect(shown.pt, SwitchRect2) /\ isCircuitClosed /\ shown.visible

\* The point of the track at the end of branch k, as branch k computes it and
\* as the branch after it computes it (the top branch, at 0, after the left one).
C14_EndOf(k) == SegmentPoint(k, SegmentEnd(k))
C14_StartAfter(k) ==
  IF k = 4 THEN SegmentPoint(1, 0) ELSE SegmentPoint(k + 1, SegmentEnd(k))
C14_SameXY(p, q) == p.x = q.x /\ p.y = q.y

\* C14 as stated: getXY(PERIMETER) equals getXY(0) in x, y, angle and
\* isHorizontal, and at each of the four ends of a branch the two branches
\* that meet there give the same (x, y).
C14_LocatePeriodic ==
  /\ probe = PERIMETER => shown.pt = getXY(0)
  /\ \A k \in 1..4 :
       probe = SegmentEnd(k) =>
         /\ shown.pt = C14_EndOf(k)
         /\ C14_SameXY(C14_EndOf(k), C14_StartAfter(k))

\* C14 as amended: getXY(PERIMETER) and getXY(0) are the same (x, y), with the
\* angle and the axis of the left branch (270, vertical) at PERIMETER and those
\* of the top branch (0, horizontal) at 0; and at each of the four ends of a
\* branch the two branches that meet there give the same (x, y).
C14_SamePointAtEnds ==
  /\ probe = PERIMETER =>
       /\ C14_SameXY(shown.pt, getXY(0))
       /\ shown.pt.angle = 270 /\ ~shown.pt.isHorizontal
       /\ getXY(0).angle = 0 /\ getXY(0).isHorizontal
  /\ \A k \in 1..4 :
       probe = SegmentEnd(k) =>
         /\ shown.pt = C14_EndOf(k)
         /\ C14_SameXY(C14_EndOf(k), C14_StartAfter(k))

\* The electron at PERIMETER, rendered again after a toggle.
C14_Witness ==
  /\ probe = PERIMETER /\ lastOp = "flip"
  /\ shown.pt = [x |-> RAIL_OFFSET2, y |-> RAIL_OFFSET2, angle |-> 270, isHorizontal |-> FALSE]

\* The ids of the battery electrons of a population.
C15_Ids(bes) == { bes[i].id : i \in DOMAIN bes }

\* C15: a battery electron is created only by a tick that runs with the switch
\* closed and the battery alive, and at most one per tick; a tick that runs
\* with the switch open or the battery dead, and a toggle, do not let the
\* population grow.
C15_SpawnOnlyEnergized ==
  [][ /\ Cardinality(C15_Ids(batteryElectrons') \ C15_Ids(batteryElectrons)) <= 1
      /\ Len(batteryElectrons') <= Len(batteryElectrons) + 1
      /\ batteryElectronIdCounter' <= batteryElectronIdCounter + 1
      /\ ( \/ C15_Ids(batteryElectrons') \ C15_Ids(batteryElectrons) # {}
           \/ Len(batteryElectrons') > Len(batteryElectrons)
           \/ batteryElectronIdCounter' # batteryElectronIdCounter )
         => (isCircuitClosed /\ ~isBatteryDead /\ lastOp' \in {"tick", "death"}) ]_vars

\* Two battery electrons on their way, the second created by a later tick than
\* the first.
C15_Witness ==
  /\ Len(batteryElectrons) = 2
  /\ batteryElectrons[1].x > batteryElectrons[2].x
  /\ lastOp = "tick" /\ isCircuitClosed

\* C16: the ids of the battery electrons are pairwise different and increase
\* in the order of creation, and no id is handed out twice, whatever ticks,
\* toggles and restarts of the loop lie between two spawns: the counter never
\* decreases, every id in use is below it, and a new battery electron gets an
\* id above every id in use and at least the counter before the step.
C16_IdsIncrease ==
  [][ /\ batteryElectronIdCounter' >= batteryElectronIdCounter
      /\ \A i \in DOMAIN batteryElectrons' :
           /\ batteryElectrons'[i].id < batteryElectronIdCounter'
           /\ \A j \in DOMAIN batteryElectrons' :
                i < j => batteryElectrons'[i].id < batteryElectrons'[j].id
           /\ batteryElectrons'[i].id \notin C15_Ids(batteryElectrons) =>
                /\ batteryElectrons'[i].id >= batteryElectronIdCounter
                /\ \A k \in DOMAIN batteryElectrons :
                     batteryElectrons[k].id < batteryElectrons'[i].id ]_vars

\* The second battery electron, created after the first one was removed and
\* after a restart of the loop.
C16_Witness ==
  /\ batteryElectronIdCounter = 2
  /\ Len(batteryElectrons) = 1 /\ batteryElectrons[1].id = 1
  /\ lastOp = "flip"

C18_TickKeepsClosed ==
  [][ /\ lastOp' \in {"tick", "death"} => isCircuitClosed' = isCircuitClosed
      /\ (~isBatteryDead /\ isBatteryDead') => (isCircuitClosed /\ isCircuitClosed')
      /\ (isCircuitClosed /\ isBatteryDead /\ ~Toggle) =>
           (isCircuitClosed' /\ isBatteryDead') ]_vars

\* A dead battery behind a closed switch, after a later tick.
C18_Witness ==
  /\ isCircuitClosed /\ isBatteryDead
  /\ lastOp = "tick" /\ prevTime = lastTimeRef

\* C19 as stated: the elapsed time a tick uses is never negative, whatever the
\* timestamps are (also one smaller than the one before), and it is 0 in the
\* first tick after the start.
C19_ElapsedNonNegative ==
  [][ lastOp' \in {"tick", "death"} =>
        /\ deltaTime' >= 0
        /\ prevTime = 0 => deltaTime' = 0 ]_vars

\* An electron without its trackPos.
C20_Rest(e) ==
  [transversePos |-> e.transversePos, vx |-> e.vx, vy |-> e.vy, vfreq |-> e.vfreq]

\* C20: no step changes the number of circuit electrons or an electron's
\* transversePos, vx, vy or vfreq; a tick that runs with the switch open or the
\* battery dead, and a toggle, leave every trackPos as it was too.
C20_OnlyTrackPosMoves ==
  [][ /\ DOMAIN electrons' = DOMAIN electrons
      /\ Len(electrons') = NumElectrons
      /\ \A i \in DOMAIN electrons : C20_Rest(electrons'[i]) = C20_Rest(electrons[i])
      /\ ~(isCircuitClosed /\ ~isBatteryDead) => electrons' = electrons
      /\ lastOp' \notin {"tick", "death"} => electrons' = electrons ]_vars

\* Every electron moved by an energized tick, one of them over the end of the
\* track.
C20_Witness ==
  /\ lastOp = "tick" /\ isCircuitClosed /\ deltaTime > 0
  /\ energizedMs > 0
  /\ \E i \in DOMAIN electrons : electrons[i].trackPos < (SPEED_PX_S * deltaTime) \div SecondMs
  /\ Len(electrons) = NumElectrons

====
